---- MODULE Spec2Model ----
(***************************************************************************)
(* Model of the buffered file writer of src/src/lib.rs: one FileWriter     *)
(* handle (Option<BufWriter<File>>) over one file, driven through the      *)
(* extern "C" functions file_writer_new, file_writer_set_buffer_size,      *)
(* file_writer_write_raw, file_writer_write_string, file_writer_flush and  *)
(* file_writer_close.                                                      *)
(*                                                                         *)
(* The file and the buffer are sequences of cells; one cell stands for     *)
(* Unit bytes, so that the default capacity of BufWriter::new fits the     *)
(* model.  Every call into the operating system may accept only part of    *)
(* what it is given and then fail: the number of cells it accepts is an    *)
(* input of the action.  The code never looks at the bytes it is given     *)
(* (but for the terminator of a C string), so the cells of a payload are   *)
(* numbered in the order they are handed to the writer: a cell that is     *)
(* lost, doubled or out of place shows in the file.                        *)
(***************************************************************************)
EXTENDS Integers, Sequences, FiniteSets, TLC

\* ------------------------------------------------------------ bounds
\* bytes one cell of the model stands for
Unit == 4096
\* longest payload of one write, in cells
MaxPayload == 2
\* largest capacity a resize asks for, in cells
MaxCap == 2
\* most cells handed to the writer over the life of the handle
MaxFile == 4

\* most descriptors of one batch
MaxBatch == 2

\* ------------------------------------------------------------ constants
\* std::io::BufWriter::new allocates DEFAULT_BUF_SIZE = 8 KiB
DEFAULT_BUF_SIZE == 8192

DefaultCap == IF DEFAULT_BUF_SIZE \div Unit >= 1 THEN DEFAULT_BUF_SIZE \div Unit ELSE 1

\* the default capacity the specification states, in bytes
SPEC_DEFAULT_CAPACITY == 65536

\* the size in bytes above which write_large bypasses the buffer
LARGE_WRITE_THRESHOLD == 1048576

\* enum FileWriterError
Success == 0
FileOpenError == 1
FileWriteError == 2
FileCloseError == 3
InvalidHandle == 4
InvalidPath == 5
InvalidData == 6
IoError == 7
\* the call did not return, the process was aborted: a value no status has
NoReturn == IoError + 1

\* enum FileWriterMode
ModeAppend == 0
ModeWrite == 1

\* ------------------------------------------------------------ inputs
\* the terminator of a C string; the cells of payloads are 1, 2, ...
NUL == 0
\* content the file may hold before it is opened (a cell no payload holds)
Existing == {<<>>, <<-1>>}
PathKinds == {"null", "nonutf8", "empty", "ok"}

VARIABLES
    handle,     \* the Box<FileWriter>: "none" (not yet allocated), "live", "freed"
    slot,       \* the caller's `*mut FileWriterHandle` slot: "unset", "null", "handle"
    writer,     \* FileWriter.writer is Some
    buf,        \* BufWriter's buffered cells
    cap,        \* BufWriter's capacity, in cells
    fdOpen,     \* the File is open (not yet dropped)
    file,       \* the content of the file
    torn,       \* per cell of file: it is the prefix of a write that failed
    exists,     \* the file exists in the file system
    existing,   \* the content the file held before the handle was opened
    base,       \* the content of the file right after the open
    mode,       \* the mode the handle was opened with
    accepted,   \* the payloads of the writes that returned Success, concatenated
                \* (of a batch: the descriptors written before its first failure)
    sent,       \* the number of cells handed to the writer so far
    wrErr,      \* some write call has returned FileWriteError
    flErr,      \* some flush call has returned FileWriteError
    pc,         \* "run", or "aborted" once the process was aborted
    last        \* the last call: its operation, arguments and result

vars == <<handle, slot, writer, buf, cap, fdOpen, file, torn, exists, existing, base, mode,
          accepted, sent, wrErr, flErr, pc, last>>

\* ------------------------------------------------------------ helpers
Prefix(s, k) == SubSeq(s, 1, k)
Suffix(s, k) == SubSeq(s, k + 1, Len(s))
Falses(n) == [i \in 1..n |-> FALSE]
Trues(n) == [i \in 1..n |-> TRUE]
IsPrefix(s, t) == Len(s) <= Len(t) /\ Prefix(t, Len(s)) = s

RECURSIVE Good(_, _)
\* the cells of f that are not torn, in order
Good(f, t) ==
    IF f = <<>> THEN <<>>
    ELSE IF Head(t) THEN Good(Tail(f), Tail(t))
         ELSE <<Head(f)>> \o Good(Tail(f), Tail(t))

\* to_bytes_with_nul: the bytes and their terminator
ToBytes_WithNul(m) == m

RECURSIVE ToBytes(_)
\* CStr::to_bytes: the bytes before the first terminator
ToBytes(m) ==
    IF m = <<>> \/ Head(m) = NUL THEN <<>> ELSE <<Head(m)>> \o ToBytes(Tail(m))

\* the payload of n cells handed to the writer next
Payload(n) == [i \in 1..n |-> sent + i]
\* the memory a `*const c_char` points to: n bytes, then the terminator
CString(n) == Payload(n) \o <<NUL>>

\* the handle arguments a caller may pass: null, or the handle it holds
HandleArgs == {"NULL"} \cup (IF handle = "live" THEN {"H"} ELSE {})

\* a call of file_writer_new: the path given, the output slot given, the mode
NewCall(ret, slotArg, path, m) ==
    [op |-> "new", ret |-> ret, h |-> slotArg, n |-> m, nul |-> path = "null",
     io |-> IF path \in {"empty", "ok"} /\ slotArg # "NULL"
            THEN (IF ret = Success THEN "ok" ELSE "fail") ELSE "none",
     path |-> path, ds |-> <<>>]

\* a call on a handle: the handle given, the size (or capacity) given, whether
\* the data reference was null, and how the calls into the file went
Call(op, ret, h, n, nul, io) ==
    [op |-> op, ret |-> ret, h |-> h, n |-> n, nul |-> nul, io |-> io, path |-> "-",
     ds |-> <<>>]

\* how the calls into the file went: "none" when no cell was handed to the
\* file, "fail" when a call failed, "ok" when cells were written and none failed
Io(ok, out) == IF ~ok THEN "fail" ELSE IF out # <<>> THEN "ok" ELSE "none"

\* get_writer_mut that checks the pointer only
GetWriterMut_NullOnly(h, w) == h # "NULL"

\* get_writer_mut: Ok iff the pointer is non-null and writer is Some
GetWriterMut(h, w) == h # "NULL" /\ w

\* flush_buf that takes a partial write for a complete one
FlushBuf_ReportsOk(b, k) ==
    [ok |-> TRUE, out |-> Prefix(b, k), rest |-> Suffix(b, k)]

\* flush_buf that leaves the cells it has written in the buffer when it fails
FlushBuf_KeepsWritten(b, k) ==
    [ok |-> k = Len(b), out |-> Prefix(b, k),
     rest |-> IF k = Len(b) THEN <<>> ELSE b]

\* BufWriter::flush_buf when the file accepts k cells of the buffer b: the
\* accepted cells leave the buffer (BufGuard drains them), Ok iff all of b left
FlushBuf(b, k) ==
    [ok |-> k = Len(b), out |-> Prefix(b, k), rest |-> Suffix(b, k)]

\* BufWriter::write_all(data) on buffer b of capacity c; the file accepts k
\* cells of a flush of b and j cells of a direct write of data
WriteAll(b, c, data, k, j) ==
    IF Len(data) < c - Len(b)
    THEN [ok |-> TRUE, out |-> <<>>, tornOut |-> <<>>, buf |-> b \o data]
    ELSE LET needFlush == Len(data) > c - Len(b)
             fl == IF needFlush THEN FlushBuf(b, k) ELSE FlushBuf(b, 0)
             b1 == IF needFlush THEN fl.rest ELSE b
             o1 == IF needFlush THEN fl.out ELSE <<>>
         IN  IF needFlush /\ ~fl.ok
             THEN [ok |-> FALSE, out |-> o1, tornOut |-> <<>>, buf |-> b1]
             ELSE IF Len(data) >= c
                  THEN IF j = Len(data)
                       THEN [ok |-> TRUE, out |-> o1 \o data, tornOut |-> <<>>, buf |-> b1]
                       ELSE [ok |-> FALSE, out |-> o1, tornOut |-> Prefix(data, j), buf |-> b1]
                  ELSE [ok |-> TRUE, out |-> o1, tornOut |-> <<>>, buf |-> b1 \o data]

\* ------------------------------------------------------------ initial state
Init ==
    /\ handle = "none"
    /\ slot = "unset"
    /\ writer = FALSE
    /\ buf = <<>>
    /\ cap = 0
    /\ fdOpen = FALSE
    /\ file \in Existing
    /\ torn = Falses(Len(file))
    /\ exists \in {e \in BOOLEAN : file # <<>> => e}
    /\ existing = file
    /\ base = file
    /\ mode = ModeWrite
    /\ accepted = <<>>
    /\ sent = 0
    /\ wrErr = FALSE
    /\ flErr = FALSE
    /\ pc = "run"
    /\ last = Call("none", Success, "NULL", 0, FALSE, "none")

\* ------------------------------------------------------------ file_writer_new
\* a file_writer_new that takes a path that is not UTF-8 as it comes
NewCheck_Utf8Unchecked(path, slotArg) ==
    IF path = "null" THEN InvalidPath
    ELSE IF slotArg = "NULL" THEN InvalidHandle
    ELSE Success

\* file_writer_new's checks before the file is opened: the status it returns
\* early, Success when it goes on to OpenOptions::open
NewCheck(path, slotArg) ==
    IF path = "null" THEN InvalidPath
    ELSE IF slotArg = "NULL" THEN InvalidHandle
    ELSE IF path = "nonutf8" THEN InvalidPath
    ELSE Success

\* whether file_writer_new has written null to the output slot by the time it
\* returns early with the status of NewCheck
SlotReset(path, slotArg) == path # "null" /\ slotArg # "NULL"

\* OpenOptions::open: an empty path names no file; a file it opens exists
\* afterwards (create(true))
OpenSucceeds(path, openOk) == path = "ok" /\ openOk

\* an open that truncates in neither mode
OpenContent_NoTruncate(m, f) == f

\* the content of the opened file: truncate(true) in Write mode, the content
\* f it had in Append mode
OpenContent(m, f) == IF m = ModeWrite THEN <<>> ELSE f

file_writer_new ==
    /\ pc = "run"
    /\ handle = "none"
    /\ \E path \in PathKinds, slotArg \in {"NULL", "SLOT"}, m \in {ModeAppend, ModeWrite},
          openOk \in BOOLEAN :
        LET chk == NewCheck(path, slotArg)
            ret == IF chk # Success THEN chk
                   ELSE IF OpenSucceeds(path, openOk) THEN Success ELSE FileOpenError
        IN  /\ last' = NewCall(ret, slotArg, path, m)
            /\ slot' = IF ret = Success THEN "handle"
                       ELSE IF SlotReset(path, slotArg) THEN "null" ELSE slot
            /\ IF ret = Success
               THEN /\ handle' = "live"
                    /\ writer' = TRUE
                    /\ buf' = <<>>
                    /\ cap' = DefaultCap
                    /\ fdOpen' = TRUE
                    /\ exists' = TRUE
                    /\ file' = OpenContent(m, file)
                    /\ torn' = Falses(Len(file'))
                    /\ base' = file'
                    /\ mode' = m
               ELSE UNCHANGED <<handle, writer, buf, cap, fdOpen, exists, file, torn,
                                base, mode>>
            /\ UNCHANGED <<existing, accepted, sent, wrErr, flErr, pc>>

\* ------------------------------------------------------------ writes
\* a write_raw that looks at the handle before it looks at the data
WriteRawCheck_HandleFirst(h, w, nul, n) ==
    IF ~GetWriterMut(h, w) THEN InvalidHandle
    ELSE IF n > 0 /\ nul THEN InvalidData
    ELSE Success

\* file_writer_write_raw's checks before the write: the status it returns early,
\* Success when it goes on to write
WriteRawCheck(h, w, nul, n) ==
    IF n > 0 /\ nul THEN InvalidData
    ELSE IF ~GetWriterMut(h, w) THEN InvalidHandle
    ELSE Success

\* file_writer_write_string's checks before the write
WriteStringCheck(h, w, nul) ==
    IF nul THEN InvalidData
    ELSE IF ~GetWriterMut(h, w) THEN InvalidHandle
    ELSE Success

\* an early return that comes after the writer was taken out of the handle
Rejected_TakesWriter(op, ret, h, n, nul) ==
    /\ last' = Call(op, ret, h, n, nul, "none")
    /\ writer' = FALSE
    /\ UNCHANGED <<handle, slot, buf, cap, fdOpen, file, torn, exists, existing, base,
                   mode, accepted, sent, wrErr, flErr, pc>>

\* a call that returns early: nothing but the record of the call changes
Rejected(op, ret, h, n, nul) ==
    /\ last' = Call(op, ret, h, n, nul, "none")
    /\ UNCHANGED <<handle, slot, writer, buf, cap, fdOpen, file, torn, exists, existing, base, mode,
                   accepted, sent, wrErr, flErr, pc>>

\* writer.write_all(data) and the status made of its result
BufferedWrite(op, h, nul, data) ==
    /\ sent + Len(data) <= MaxFile
    /\ \E k \in 0..Len(buf), j \in 0..Len(data) :
        LET r == WriteAll(buf, cap, data, k, j)
        IN  /\ file' = file \o r.out \o r.tornOut
            /\ torn' = torn \o Falses(Len(r.out)) \o Trues(Len(r.tornOut))
            /\ buf' = r.buf
            /\ accepted' = IF r.ok THEN accepted \o data ELSE accepted
            /\ sent' = sent + Len(data)
            /\ wrErr' = (wrErr \/ ~r.ok)
            /\ last' = Call(op, IF r.ok THEN Success ELSE FileWriteError, h, Len(data),
                            nul, Io(r.ok, r.out))
            /\ UNCHANGED <<handle, slot, writer, cap, fdOpen, exists, existing, base, mode, flErr, pc>>

\* the process is aborted inside the call: nothing returns, nothing runs after
Aborted(op, h, n, nul) ==
    /\ pc' = "aborted"
    /\ last' = Call(op, NoReturn, h, n, nul, "none")
    /\ UNCHANGED <<handle, slot, writer, buf, cap, fdOpen, file, torn, exists, existing, base, mode,
                   accepted, sent, wrErr, flErr>>

\* slice::from_raw_parts(data, size) with a null data and size 0 is undefined
\* behaviour: the build either goes on with an empty slice or aborts in the
\* precondition check of from_raw_parts
RawPartsOutcomes(nul) == IF nul THEN {"slice", "abort"} ELSE {"slice"}

file_writer_write_raw ==
    /\ pc = "run"
    /\ \E h \in HandleArgs, nul \in BOOLEAN, size \in 0..MaxPayload :
        LET chk == WriteRawCheck(h, writer, nul, size)
        IN  IF chk # Success
            THEN Rejected("write_raw", chk, h, size, nul)
            ELSE \E ub \in RawPartsOutcomes(nul) :
                     IF ub = "abort"
                     THEN Aborted("write_raw", h, size, nul)
                     ELSE BufferedWrite("write_raw", h, nul, Payload(size))

file_writer_write_string ==
    /\ pc = "run"
    /\ \E h \in HandleArgs, nul \in BOOLEAN, n \in 0..MaxPayload :
        LET chk == WriteStringCheck(h, writer, nul)
            bytes == ToBytes(CString(n))
        IN  IF chk # Success
            THEN Rejected("write_string", chk, h, IF nul THEN 0 ELSE n, nul)
            ELSE BufferedWrite("write_string", h, nul, bytes)

\* ------------------------------------------------------------ file_writer_set_buffer_size
\* BufWriter::into_inner when the file accepts k cells of the buffer; when it
\* fails the BufWriter travels in the IntoInnerError, and dropping that error
\* drops the BufWriter, which flushes once more (the file accepts k2 cells of
\* what is left) and closes the File
IntoInner(b, k, k2) ==
    LET fl == FlushBuf(b, k)
        again == FlushBuf(fl.rest, k2)
    IN  IF fl.ok THEN [ok |-> TRUE, out |-> fl.out, lost |-> <<>>]
        ELSE [ok |-> FALSE, out |-> fl.out \o again.out, lost |-> again.rest]

\* a resize that looks at the handle before it looks at the size
SetBufferSizeCheck_HandleFirst(h, w, size) ==
    IF h = "NULL" THEN InvalidHandle
    ELSE IF ~w THEN InvalidHandle
    ELSE IF size = 0 THEN InvalidData
    ELSE Success

\* file_writer_set_buffer_size's checks before the writer is taken
SetBufferSizeCheck(h, w, size) ==
    IF size = 0 THEN InvalidData
    ELSE IF h = "NULL" THEN InvalidHandle
    ELSE IF ~w THEN InvalidHandle
    ELSE Success

\* a resize that keeps the handle valid when into_inner fails
SetBufferSizeResult_KeepsWriter(r, size, c) ==
    IF r.ok
    THEN [ret |-> Success, writer |-> TRUE, cap |-> size, fdOpen |-> TRUE]
    ELSE [ret |-> FileCloseError, writer |-> TRUE, cap |-> c, fdOpen |-> TRUE]

\* a resize that wraps the File in a BufWriter of the old capacity
SetBufferSizeResult_OldCap(r, size, c) ==
    IF r.ok
    THEN [ret |-> Success, writer |-> TRUE, cap |-> c, fdOpen |-> TRUE]
    ELSE [ret |-> FileCloseError, writer |-> FALSE, cap |-> c, fdOpen |-> FALSE]

\* what file_writer_set_buffer_size makes of the result r of into_inner: on Ok
\* a new BufWriter of capacity size around the same File, on Err the writer
\* stays None and the File went with the error
SetBufferSizeResult(r, size, c) ==
    IF r.ok
    THEN [ret |-> Success, writer |-> TRUE, cap |-> size, fdOpen |-> TRUE]
    ELSE [ret |-> FileCloseError, writer |-> FALSE, cap |-> c, fdOpen |-> FALSE]

file_writer_set_buffer_size ==
    /\ pc = "run"
    /\ \E h \in HandleArgs, size \in 0..MaxCap :
        LET chk == SetBufferSizeCheck(h, writer, size)
        IN  IF chk # Success
            THEN Rejected("set_buffer_size", chk, h, size, FALSE)
            ELSE \E k \in 0..Len(buf) : \E k2 \in 0..(Len(buf) - k) :
                LET r == IntoInner(buf, k, k2)
                    res == SetBufferSizeResult(r, size, cap)
                IN  /\ file' = file \o r.out
                    /\ torn' = torn \o Falses(Len(r.out))
                    /\ buf' = <<>>
                    /\ writer' = res.writer
                    /\ cap' = res.cap
                    /\ fdOpen' = res.fdOpen
                    /\ last' = Call("set_buffer_size", res.ret, h, size, FALSE,
                                    Io(r.ok, r.out))
                    /\ UNCHANGED <<handle, slot, exists, existing, base, mode, accepted, sent, wrErr, flErr, pc>>

\* ------------------------------------------------------------ file_writer_flush
\* a flush that, like a resize, gives the writer up when flush_buf fails
FlushResult_Invalidates(fl) ==
    [ret |-> IF fl.ok THEN Success ELSE FileWriteError, writer |-> fl.ok]

\* what file_writer_flush makes of the result fl of flush_buf: the status, and
\* whether the writer stays in the handle
FlushResult(fl) ==
    [ret |-> IF fl.ok THEN Success ELSE FileWriteError, writer |-> TRUE]

file_writer_flush ==
    /\ pc = "run"
    /\ \E h \in HandleArgs :
        IF ~GetWriterMut(h, writer)
        THEN Rejected("flush", InvalidHandle, h, 0, FALSE)
        ELSE \E k \in 0..Len(buf) :
             LET fl == FlushBuf(buf, k)
                 res == FlushResult(fl)
             IN  /\ file' = file \o fl.out
                 /\ torn' = torn \o Falses(Len(fl.out))
                 /\ buf' = fl.rest
                 /\ writer' = res.writer
                 /\ flErr' = (flErr \/ ~fl.ok)
                 /\ last' = Call("flush", res.ret, h, 0, FALSE, Io(fl.ok, fl.out))
                 /\ UNCHANGED <<handle, slot, cap, fdOpen, exists, existing, base, mode,
                                accepted, sent, wrErr, pc>>

\* ------------------------------------------------------------ file_writer_close
\* a close that reports Success for a handle without writer
CloseResult_StreamlessSuccess(w, r) ==
    IF w THEN (IF r.ok THEN Success ELSE FileCloseError) ELSE Success

\* the status file_writer_close makes of a non-null handle: w says whether the
\* writer is Some, r is the result of into_inner on it
CloseResult(w, r) ==
    IF w THEN (IF r.ok THEN Success ELSE FileCloseError) ELSE InvalidHandle

file_writer_close ==
    /\ pc = "run"
    /\ \E h \in HandleArgs :
        IF h = "NULL"
        THEN Rejected("close", InvalidHandle, h, 0, FALSE)
        ELSE \E k \in 0..Len(buf) : \E k2 \in 0..(Len(buf) - k) :
            LET r == IntoInner(buf, k, k2)
                out == IF writer THEN r.out ELSE <<>>
            IN  /\ handle' = "freed"
                /\ file' = file \o out
                /\ torn' = torn \o Falses(Len(out))
                /\ last' = Call("close", CloseResult(writer, r), h, 0, FALSE,
                                IF writer THEN Io(r.ok, r.out) ELSE "none")
                /\ writer' = FALSE
                /\ buf' = <<>>
                /\ fdOpen' = FALSE
                /\ UNCHANGED <<slot, cap, exists, existing, base, mode, accepted, sent, wrErr, flErr, pc>>

Next ==
    \/ file_writer_new
    \/ file_writer_set_buffer_size
    \/ file_writer_write_raw
    \/ file_writer_write_string
    \/ file_writer_flush
    \/ file_writer_close

Spec == Init /\ [][Next]_vars

\* ------------------------------------------------------------ write_large, write_batch
\* file_writer_write_large and file_writer_write_batch are called by
\* src/benches/file_writer_benchmark.rs and are not in src/src/lib.rs: they are
\* modelled from sections 4.3 and 6 of the specification, on top of the
\* BufWriter model above, and are steps of SpecApi only.

\* the outcome of a write, applied to the handle: r is a record like WriteAll's,
\* acc the cells the writer took in whole, n the number of cells handed to it
ApplyWrite(call, r, acc, n) ==
    /\ file' = file \o r.out \o r.tornOut
    /\ torn' = torn \o Falses(Len(r.out)) \o Trues(Len(r.tornOut))
    /\ buf' = r.buf
    /\ accepted' = accepted \o acc
    /\ sent' = sent + n
    /\ wrErr' = (wrErr \/ ~r.ok)
    /\ last' = call
    /\ UNCHANGED <<handle, slot, writer, cap, fdOpen, exists, existing, base, mode,
                   flErr, pc>>

\* the sizes in bytes a write_large is given: whole cells up to MaxPayload, the
\* threshold, and one byte more
LargeSizes ==
    {n * Unit : n \in 0..MaxPayload} \cup {LARGE_WRITE_THRESHOLD, LARGE_WRITE_THRESHOLD + 1}

\* whether a write_large of this many bytes bypasses the buffer
Bypasses(bytes) == bytes > LARGE_WRITE_THRESHOLD

\* the number of cells that hold a payload of this many bytes: a payload of
\* more than MaxPayload cells is held in MaxPayload chunks, which is no less
\* than any capacity
LargeCells(bytes) ==
    IF bytes > MaxPayload * Unit THEN MaxPayload ELSE bytes \div Unit

LargePayload(bytes) == Payload(LargeCells(bytes))

\* the bypass of write_large: flush and drain the buffer b (the file accepts k
\* of its cells), then write data to the file itself (the file accepts j cells)
LargeWrite(b, data, k, j) ==
    LET fl == FlushBuf(b, k)
    IN  IF ~fl.ok
        THEN [ok |-> FALSE, out |-> fl.out, tornOut |-> <<>>, buf |-> fl.rest]
        ELSE IF j = Len(data)
             THEN [ok |-> TRUE, out |-> fl.out \o data, tornOut |-> <<>>, buf |-> fl.rest]
             ELSE [ok |-> FALSE, out |-> fl.out, tornOut |-> Prefix(data, j),
                   buf |-> fl.rest]

\* a call of write_large: n is its size in bytes
LargeCall(ret, h, bytes, nul, io) ==
    [op |-> "write_large", ret |-> ret, h |-> h, n |-> bytes, nul |-> nul, io |-> io,
     path |-> "-", ds |-> <<>>]

file_writer_write_large ==
    /\ pc = "run"
    /\ \E h \in HandleArgs, nul \in BOOLEAN, bytes \in LargeSizes :
        LET chk == IF bytes > 0 /\ nul THEN InvalidData
                   ELSE IF ~GetWriterMut(h, writer) THEN InvalidHandle
                   ELSE Success
            data == LargePayload(bytes)
        IN  IF chk # Success
            THEN /\ last' = LargeCall(chk, h, bytes, nul, "none")
                 /\ UNCHANGED <<handle, slot, writer, buf, cap, fdOpen, file, torn, exists,
                                existing, base, mode, accepted, sent, wrErr, flErr, pc>>
            ELSE /\ sent + Len(data) <= MaxFile
                 /\ \E k \in 0..Len(buf), j \in 0..Len(data) :
                     LET r == IF Bypasses(bytes) THEN LargeWrite(buf, data, k, j)
                              ELSE WriteAll(buf, cap, data, k, j)
                     IN  ApplyWrite(LargeCall(IF r.ok THEN Success ELSE FileWriteError,
                                              h, bytes, nul, Io(r.ok, r.out)),
                                    r, IF r.ok THEN data ELSE <<>>, Len(data))

RECURSIVE SumSeq(_)
SumSeq(ds) == IF ds = <<>> THEN 0 ELSE Head(ds) + SumSeq(Tail(ds))

\* the sizes of the descriptors of a batch, in cells: at most MaxBatch
\* descriptors, MaxPayload cells in all
BatchSizes ==
    {ds \in UNION {[1..m -> 0..MaxPayload] : m \in 0..MaxBatch} : SumSeq(ds) <= MaxPayload}

\* the cells of a descriptor of size n when s cells were handed out before it
Cells(s, n) == [i \in 1..n |-> s + i]

RECURSIVE BatchOutcomes(_, _, _, _)
\* the outcomes of writing the descriptors of sizes ds in order through
\* write_all, from buffer b of capacity c, the cells numbered from s: an empty
\* descriptor is skipped, the first write that fails ends the batch
BatchOutcomes(b, c, ds, s) ==
    IF ds = <<>>
    THEN {[ok |-> TRUE, out |-> <<>>, tags |-> <<>>, buf |-> b, acc |-> <<>>]}
    ELSE IF Head(ds) = 0 THEN BatchOutcomes(b, c, Tail(ds), s)
    ELSE LET data == Cells(s, Head(ds))
         IN  UNION {
               LET r == WriteAll(b, c, data, k, j)
               IN  IF ~r.ok
                   THEN {[ok |-> FALSE, out |-> r.out \o r.tornOut,
                          tags |-> Falses(Len(r.out)) \o Trues(Len(r.tornOut)),
                          buf |-> r.buf, acc |-> <<>>]}
                   ELSE {[ok |-> o.ok, out |-> r.out \o o.out,
                          tags |-> Falses(Len(r.out)) \o o.tags,
                          buf |-> o.buf, acc |-> data \o o.acc] :
                           o \in BatchOutcomes(r.buf, c, Tail(ds), s + Head(ds))}
               : k \in 0..Len(b), j \in 0..Head(ds)}

\* a call of write_batch: n is its count, ds the sizes of its descriptors
BatchCall(ret, h, ds, nul, io) ==
    [op |-> "write_batch", ret |-> ret, h |-> h, n |-> Len(ds), nul |-> nul, io |-> io,
     path |-> "-", ds |-> ds]

file_writer_write_batch ==
    /\ pc = "run"
    /\ \E h \in HandleArgs, nul \in BOOLEAN, ds \in BatchSizes :
        LET chk == IF Len(ds) > 0 /\ nul THEN InvalidData
                   ELSE IF ~GetWriterMut(h, writer) THEN InvalidHandle
                   ELSE Success
        IN  IF chk # Success
            THEN /\ last' = BatchCall(chk, h, ds, nul, "none")
                 /\ UNCHANGED <<handle, slot, writer, buf, cap, fdOpen, file, torn, exists,
                                existing, base, mode, accepted, sent, wrErr, flErr, pc>>
            ELSE /\ sent + SumSeq(ds) <= MaxFile
                 /\ \E o \in BatchOutcomes(buf, cap, ds, sent) :
                     /\ file' = file \o o.out
                     /\ torn' = torn \o o.tags
                     /\ buf' = o.buf
                     /\ accepted' = accepted \o o.acc
                     /\ sent' = sent + SumSeq(ds)
                     /\ wrErr' = (wrErr \/ ~o.ok)
                     /\ last' = BatchCall(IF o.ok THEN Success ELSE FileWriteError,
                                          h, ds, nul, Io(o.ok, o.out))
                     /\ UNCHANGED <<handle, slot, writer, cap, fdOpen, exists, existing,
                                    base, mode, flErr, pc>>

\* a handle that is opened, written through write_large and write_batch with
\* the default capacity, and closed
NextApi ==
    \/ file_writer_new
    \/ file_writer_write_large
    \/ file_writer_write_batch
    \/ file_writer_close

SpecApi == Init /\ [][NextApi]_vars

\* ------------------------------------------------------------ claims
\* the write and flush operations
WriteOps == {"write_raw", "write_string"}

\* C1: after a close that returns Success on a handle opened in Write mode, on
\* which no write returned FileWriteError, whatever flushes and resizes came in
\* between, the file is exactly the payloads of the successful writes, in call
\* order.
C1_ConcatAfterClose ==
    (last.op = "close" /\ last.ret = Success /\ mode = ModeWrite /\ ~wrErr)
        => file = accepted

\* C1 witness: such a close, after three cells or more were written and a
\* resize changed the capacity.
C1_Witness ==
    /\ last.op = "close" /\ last.ret = Success /\ mode = ModeWrite /\ ~wrErr
    /\ Len(accepted) >= 3
    /\ cap # DefaultCap

\* C2 as stated: every write_raw, write_string and flush call on an invalid
\* handle (null, or its writer is None) returns InvalidHandle and leaves the
\* file unchanged.
C2_Original ==
    [][(last'.op \in WriteOps \cup {"flush"} /\ (last'.h = "NULL" \/ ~writer))
           => (last'.ret = InvalidHandle /\ file' = file)]_vars

\* C2 amended: every write_raw, write_string and flush call on an invalid handle
\* is rejected and changes neither the file nor the buffer; the status is
\* InvalidHandle, except for a write_raw with a null data and a nonzero size and
\* a write_string with a null string, which return InvalidData; a live handle
\* whose writer is None never gets a writer again.
C2_InvalidRejected ==
    [][/\ (last'.op \in WriteOps \cup {"flush"} /\ (last'.h = "NULL" \/ ~writer))
           => /\ last'.ret = IF last'.nul /\ (last'.op = "write_string" \/ last'.n > 0)
                             THEN InvalidData ELSE InvalidHandle
              /\ UNCHANGED <<file, buf, writer, fdOpen, handle, accepted>>
       /\ (handle = "live" /\ ~writer /\ handle' = "live") => ~writer'
      ]_vars

\* C2 witness: a write on a live handle that a failed resize left without writer
\* is rejected with InvalidHandle.
C2_Witness ==
    /\ handle = "live" /\ ~writer
    /\ last.op = "write_raw" /\ last.h = "H" /\ last.ret = InvalidHandle

\* C3: a resize with a nonzero capacity on a valid handle whose flush-and-drain
\* fails returns FileCloseError and leaves the writer None; a resize takes the
\* writer away only so, and a resize that returns Success leaves it in place.
C3_ResizeFailureInvalidates ==
    [][last'.op = "set_buffer_size" =>
          /\ (last'.n > 0 /\ last'.h = "H" /\ writer /\ last'.io = "fail")
                 => (last'.ret = FileCloseError /\ ~writer')
          /\ (writer /\ ~writer')
                 => (last'.io = "fail" /\ last'.ret = FileCloseError /\ last'.n > 0)
          /\ (writer /\ last'.io # "fail") => writer'
      ]_vars

\* C3 witness: a resize has failed in its flush-and-drain and the handle, still
\* allocated, has no writer.
C3_Witness ==
    /\ last.op = "set_buffer_size" /\ last.ret = FileCloseError /\ last.io = "fail"
    /\ handle = "live" /\ ~writer

\* C4: after a resize with capacity c > 0 returned Success the buffer is empty,
\* the capacity is c, the handle is valid and its File open, and the file
\* holds the payloads of the successful writes in call order; a later step on
\* the live handle only ever appends to the file.
C4_State ==
    (last.op = "set_buffer_size" /\ last.ret = Success)
        => /\ last.n > 0
           /\ buf = <<>>
           /\ cap = last.n
           /\ handle = "live" /\ writer /\ fdOpen
           /\ Good(file, torn) = base \o accepted

C4_ResizeSuccess ==
    /\ []C4_State
    /\ [][handle = "live" => IsPrefix(file, file')]_vars

\* C4 witness: a successful resize that drained buffered cells into the file
\* and changed the capacity.
C4_Witness ==
    /\ last.op = "set_buffer_size" /\ last.ret = Success /\ last.io = "ok"
    /\ cap # DefaultCap
    /\ accepted # <<>>

\* C5: a resize with capacity 0 returns InvalidData, whatever the handle is, and
\* leaves the buffer, the capacity, the writer and the file as they were.
C5_ResizeZero ==
    [][(last'.op = "set_buffer_size" /\ last'.n = 0)
           => (last'.ret = InvalidData
               /\ UNCHANGED <<buf, cap, writer, fdOpen, file, handle, accepted>>)]_vars

\* C5 witness: a resize with capacity 0 on a valid handle that holds buffered
\* cells was rejected with InvalidData.
C5_Witness ==
    /\ last.op = "set_buffer_size" /\ last.n = 0 /\ last.ret = InvalidData
    /\ last.h = "H" /\ writer /\ buf # <<>>

\* C6: a close on a non-null handle frees the handle and closes its File; it
\* returns Success exactly when the writer is Some and the final flush drains
\* the whole buffer into the file, FileCloseError exactly when the writer is
\* Some and the final flush fails, InvalidHandle exactly when the writer is
\* None, and then nothing is handed to the file; a close on a null handle
\* returns InvalidHandle and frees nothing.
C6_CloseStatus ==
    [][last'.op = "close" =>
          IF last'.h = "NULL"
          THEN /\ last'.ret = InvalidHandle
               /\ UNCHANGED <<handle, writer, buf, cap, fdOpen, file>>
          ELSE /\ handle = "live" /\ handle' = "freed" /\ ~writer' /\ ~fdOpen'
               /\ (last'.ret = Success) = (writer /\ last'.io # "fail")
               /\ (last'.ret = FileCloseError) = (writer /\ last'.io = "fail")
               /\ (last'.ret = InvalidHandle) = ~writer
               /\ last'.ret = Success => file' = file \o buf
               /\ ~writer => (last'.io = "none" /\ file' = file)
      ]_vars

\* C6 witness: the close of a handle that a failed resize left without writer
\* returned InvalidHandle and freed the handle.
C6_Witness ==
    /\ last.op = "close" /\ last.h = "H" /\ last.ret = InvalidHandle
    /\ handle = "freed"

\* C7: a write or flush call that returns FileWriteError leaves the handle
\* allocated, its writer in place and its File open, so that later calls pass
\* get_writer_mut; and when, after such a failure, a flush returns Success, the
\* buffer is empty and the file holds each cell of the successful writes once
\* and in call order.
C7_AfterFailure ==
    (last.op = "flush" /\ last.ret = Success /\ (wrErr \/ flErr))
        => /\ buf = <<>>
           /\ Good(file, torn) = base \o accepted

C7_WriteErrorKeepsHandle ==
    /\ [][(last'.op \in WriteOps \cup {"flush"} /\ last'.ret = FileWriteError)
              => (handle' = "live" /\ writer' /\ fdOpen'
                  /\ GetWriterMut("H", writer'))]_vars
    /\ []C7_AfterFailure

\* C7 witness: a flush returned Success after a write and a flush had failed,
\* and the file holds successful writes next to the prefix of a failed one.
C7_Witness ==
    /\ last.op = "flush" /\ last.ret = Success /\ wrErr /\ flErr
    /\ accepted # <<>>
    /\ Good(file, torn) # file

\* C8: whenever flush returns Success the buffer is empty, the file holds every
\* cell of the successful writes so far, the File is open and the handle valid.
C8_FlushSuccess ==
    (last.op = "flush" /\ last.ret = Success)
        => /\ buf = <<>>
           /\ Good(file, torn) = base \o accepted
           /\ handle = "live" /\ writer /\ fdOpen

\* C8 witness: a flush returned Success and moved cells into the file, which
\* until then were in the buffer only although their write had returned Success.
C8_Witness ==
    /\ last.op = "flush" /\ last.ret = Success /\ last.io = "ok"
    /\ accepted # <<>>

\* a state in which a write has returned Success and its cells are in the buffer
\* only (the second half of C8; reached, see C8_Witness)
C8_BufferedOnly ==
    /\ last.op \in WriteOps /\ last.ret = Success /\ last.n > 0
    /\ buf = accepted /\ file = base

\* C9 (on a valid handle): a write call of size 0 returns Success and changes
\* neither the file nor the buffer, whatever the data reference is.
C9_ZeroSizeWrite ==
    [][(/\ \/ last'.op = "write_raw"
           \/ last'.op = "write_string" /\ ~last'.nul
        /\ last'.n = 0 /\ last'.h = "H" /\ writer)
           => (last'.ret = Success /\ UNCHANGED <<file, buf>>)]_vars

\* what holds of C9 in the code: on a valid handle a write of size 0 whose data
\* reference is not null returns Success and changes neither file nor buffer.
C9_ZeroSizeNonNull ==
    [][(last'.op \in WriteOps /\ ~last'.nul /\ last'.n = 0 /\ last'.h = "H" /\ writer)
           => (last'.ret = Success /\ UNCHANGED <<file, buf, accepted>>)]_vars

\* C10: a write_raw with a null data and a nonzero size, and a write_string
\* with a null string, return InvalidData, whatever the handle is, and leave the
\* file and the buffer as they were.
C10_NullData ==
    [][(\/ last'.op = "write_raw" /\ last'.nul /\ last'.n > 0
        \/ last'.op = "write_string" /\ last'.nul)
           => (last'.ret = InvalidData
               /\ UNCHANGED <<file, torn, buf, accepted, writer, fdOpen, handle, cap>>)]_vars

\* C10 witness: a write_raw with a null data and a nonzero size on a valid handle
\* that holds buffered cells was rejected with InvalidData.
C10_Witness ==
    /\ last.op = "write_raw" /\ last.nul /\ last.n > 0 /\ last.ret = InvalidData
    /\ last.h = "H" /\ writer /\ buf # <<>>

\* C11: after a file_writer_new that was given an output slot, the slot holds
\* null when the status is not Success (a null path included), and the handle
\* of a valid writer with an open File when it is Success.
C11_SlotAfterNew ==
    (last.op = "new" /\ last.h = "SLOT")
        => IF last.ret = Success
           THEN slot = "handle" /\ handle = "live" /\ writer /\ fdOpen
           ELSE slot = "null"

\* what holds of C11 in the code: the slot holds null after every failure but
\* that for a null path, which leaves the slot as it was.
C11_SlotAfterNewButNullPath ==
    [][(last'.op = "new" /\ last'.h = "SLOT")
          => IF last'.ret = Success
             THEN slot' = "handle" /\ handle' = "live" /\ writer' /\ fdOpen'
             ELSE IF last'.path = "null" THEN slot' = slot ELSE slot' = "null"]_vars

\* C12: a file_writer_new with an empty, null or non-UTF-8 path returns
\* InvalidPath and hands out no handle; FileOpenError is returned only for a
\* usable path whose open fails.
C12_InvalidPath ==
    (last.op = "new" /\ last.h = "SLOT")
        => /\ last.path \in {"empty", "null", "nonutf8"}
                 => (last.ret = InvalidPath /\ slot # "handle")
           /\ last.ret = FileOpenError => last.path = "ok"

\* what holds of C12 in the code: a null or non-UTF-8 path returns InvalidPath
\* and hands out no handle; an empty path returns FileOpenError.
C12_InvalidPathButEmpty ==
    (last.op = "new" /\ last.h = "SLOT")
        => /\ last.path \in {"null", "nonutf8"}
                 => (last.ret = InvalidPath /\ slot # "handle")
           /\ last.path = "empty" => (last.ret = FileOpenError /\ slot = "null")
           /\ last.ret = FileOpenError => last.path \in {"ok", "empty"}

\* C13: after a close that returns Success, with no write having failed, the
\* file of a handle opened in Write mode holds the payloads written and nothing
\* of what it held before the open, and the file of a handle opened in Append
\* mode holds what it held before the open, then the payloads written.
C13_TruncateOrAppend ==
    (last.op = "close" /\ last.ret = Success /\ ~wrErr)
        => file = (IF mode = ModeWrite THEN <<>> ELSE existing) \o accepted

\* C13 witness: a handle opened in Write mode on a file that held content was
\* written to and closed with Success.
C13_Witness ==
    /\ last.op = "close" /\ last.ret = Success /\ ~wrErr
    /\ mode = ModeWrite /\ existing # <<>> /\ accepted # <<>>

\* the Append half of the C13 witness, and the half with no write at all
C13_WitnessAppend ==
    /\ last.op = "close" /\ last.ret = Success /\ ~wrErr
    /\ mode = ModeAppend /\ existing # <<>> /\ accepted # <<>>

C13_WitnessNoWrite ==
    /\ last.op = "close" /\ last.ret = Success
    /\ mode = ModeWrite /\ existing # <<>> /\ sent = 0

\* C20: a file_writer_new rejected for a null path, a null output slot or a
\* path that is not UTF-8 makes no call into the file system: the file is
\* neither created nor truncated, and no handle is allocated.
C20_RejectedOpenTouchesNoFile ==
    [][(last'.op = "new"
        /\ (last'.path \in {"null", "nonutf8"} \/ last'.h = "NULL"))
           => (/\ last'.ret \in {InvalidPath, InvalidHandle}
               /\ last'.io = "none"
               /\ UNCHANGED <<file, exists, handle, writer, fdOpen>>)]_vars

\* C20 witness: a file_writer_new in Write mode with a path that is not UTF-8 was
\* rejected and the file still holds its content.
C20_Witness ==
    /\ last.op = "new" /\ last.path = "nonutf8" /\ last.h = "SLOT"
    /\ last.n = ModeWrite /\ last.ret = InvalidPath
    /\ file # <<>> /\ handle = "none"

\* the same with a file that does not exist: it is not created
C20_WitnessNotCreated ==
    /\ last.op = "new" /\ last.path = "null" /\ last.n = ModeWrite
    /\ ~exists

\* every cell handed to the writer since the open is in the buffer: no flush,
\* resize or close has moved one, and no write went to the file
AllBuffered ==
    /\ handle = "live" /\ writer
    /\ file = base /\ buf = accepted /\ Len(accepted) = sent

\* C16: right after a successful open the capacity is 65,536 bytes, and raw
\* writes whose sizes add up to less than 65,536 bytes leave the file as it
\* was at the open: they stay in the buffer.
C16_Default64K ==
    /\ []((last.op = "new" /\ last.ret = Success) => cap * Unit = SPEC_DEFAULT_CAPACITY)
    /\ [][(AllBuffered /\ last'.op = "write_raw" /\ last'.ret = Success
           /\ sent' * Unit < SPEC_DEFAULT_CAPACITY)
              => (file' = file /\ buf' = buf \o Payload(last'.n))]_vars

\* what holds of C16 in the code: the capacity right after the open is that of
\* BufWriter::new, DEFAULT_BUF_SIZE bytes (in whole cells), and raw writes whose
\* sizes add up to less than the capacity stay in the buffer.
C16_DefaultBufSize ==
    /\ []((last.op = "new" /\ last.ret = Success)
             => (cap * Unit <= DEFAULT_BUF_SIZE /\ DEFAULT_BUF_SIZE < (cap + 1) * Unit))
    /\ [][(AllBuffered /\ last'.op = "write_raw" /\ last'.ret = Success
           /\ sent' < cap)
              => (file' = file /\ buf' = buf \o Payload(last'.n))]_vars

\* C17: after a resize failed in its flush-and-drain the handle still holds
\* its File, open until close; the failed resize neither closes the File nor
\* hands the file more cells than the failed flush had written.
C17_StreamRetained ==
    /\ []((handle = "live" /\ ~writer) => fdOpen)
    /\ [][(last'.op = "set_buffer_size" /\ last'.ret = FileCloseError)
              => (fdOpen' /\ \E k \in 0..Len(buf) : k < Len(buf)
                                   /\ file' = file \o Prefix(buf, k))]_vars

\* what holds of C17 in the code: the failed resize leaves the handle
\* allocated without writer and with its File closed; the file got a part of
\* the buffer (the drop of the writer flushes once more), all of it at most.
C17_StreamReleased ==
    /\ []((handle = "live" /\ ~writer) => ~fdOpen)
    /\ [][(last'.op = "set_buffer_size" /\ last'.ret = FileCloseError)
              => (handle' = "live" /\ ~writer' /\ ~fdOpen'
                  /\ \E k \in 0..Len(buf) : file' = file \o Prefix(buf, k))]_vars

\* C18 as stated: a call that returns InvalidPath, InvalidData or InvalidHandle
\* makes no call into the file and changes nothing: not the file, the buffer,
\* the capacity, the writer, the allocation of the handle, the output slot.
C18_Original ==
    [][last'.ret \in {InvalidPath, InvalidData, InvalidHandle}
          => (last'.io = "none"
              /\ UNCHANGED <<file, exists, buf, cap, writer, fdOpen, handle, slot>>)]_vars

\* C18 amended: such a call makes no call into the file and changes neither the
\* file, the buffer, the capacity nor the writer; it leaves the handle
\* allocated as it was, but for a close of a non-null handle without writer,
\* which returns InvalidHandle and frees the handle; it leaves the output slot
\* as it was, but for a file_writer_new with a path that is not UTF-8, which
\* returns InvalidPath with the slot set to null.
C18_RejectionFrame ==
    [][last'.ret \in {InvalidPath, InvalidData, InvalidHandle}
          => /\ last'.io = "none"
             /\ UNCHANGED <<file, torn, exists, buf, cap, writer, fdOpen, accepted>>
             /\ IF last'.op = "close" /\ last'.h = "H"
                THEN ~writer /\ handle = "live" /\ handle' = "freed"
                ELSE handle' = handle
             /\ IF last'.op = "new" /\ last'.h = "SLOT" /\ last'.path = "nonutf8"
                THEN slot' = "null"
                ELSE slot' = slot]_vars

\* C18 witness: a resize on a live handle without writer was rejected with
\* InvalidHandle.
C18_Witness ==
    /\ last.op = "set_buffer_size" /\ last.h = "H" /\ last.n > 0
    /\ last.ret = InvalidHandle /\ handle = "live" /\ ~writer

\* the two exceptions of the amended C18 happen
C18_WitnessClose ==
    /\ last.op = "close" /\ last.h = "H" /\ last.ret = InvalidHandle /\ handle = "freed"

C18_WitnessSlot ==
    /\ last.op = "new" /\ last.path = "nonutf8" /\ last.ret = InvalidPath /\ slot = "null"

\* C19: while the handle is valid and no write and no flush has failed, the
\* file followed by the buffer is what the file held at the open followed by
\* the payloads of the successful write_raw and write_string calls, in call
\* order, and holds no terminator of a string.
C19_FileThenBuffer ==
    (handle = "live" /\ writer /\ ~wrErr /\ ~flErr)
        => /\ file \o buf = base \o accepted
           /\ \A i \in 1..Len(file \o buf) : (file \o buf)[i] # NUL

\* C19 witness: a write_string returned Success after a flush or resize had
\* moved cells into the file, and left cells in the buffer.
C19_Witness ==
    /\ handle = "live" /\ writer /\ ~wrErr /\ ~flErr
    /\ last.op = "write_string" /\ last.ret = Success /\ last.n > 0
    /\ file # base /\ buf # <<>>

\* the step write_raw takes from the current state when it is called as the
\* step's write_large was: with the same handle and data and n cells
RawStep(n) ==
    LET chk == IF n > 0 /\ last'.nul THEN InvalidData
               ELSE IF last'.h = "NULL" \/ ~writer THEN InvalidHandle
               ELSE Success
        data == Payload(n)
    IN  IF chk # Success
        THEN /\ last'.ret = chk
             /\ UNCHANGED <<handle, slot, writer, buf, cap, fdOpen, file, torn, exists,
                            existing, base, mode, accepted, sent, wrErr, flErr, pc>>
        ELSE \E k \in 0..Len(buf), j \in 0..n :
               LET spare == cap - Len(buf)
                   b1 == IF n > spare THEN Suffix(buf, k) ELSE buf
                   flushed == IF n > spare THEN Prefix(buf, k) ELSE <<>>
                   ok1 == b1 = <<>> \/ n <= spare
               IN  /\ file' = file \o flushed
                             \o (IF ok1 /\ n >= cap THEN Prefix(data, j) ELSE <<>>)
                   /\ buf' = IF ok1 /\ n < cap THEN b1 \o data ELSE b1
                   /\ last'.ret = IF ok1 /\ (n < cap \/ j = n) THEN Success
                                  ELSE FileWriteError
                   /\ accepted' = IF last'.ret = Success THEN accepted \o data
                                  ELSE accepted
                   /\ UNCHANGED <<handle, slot, writer, cap, fdOpen, pc>>

C14_WitnessSmall ==
    /\ last.op = "write_large" /\ last.n > 0 /\ last.n < LARGE_WRITE_THRESHOLD
    /\ last.ret = Success
    /\ buf # <<>>

\* a write_large of exactly the threshold succeeded after earlier writes
C14_WitnessThreshold ==
    /\ last.op = "write_large" /\ last.n = LARGE_WRITE_THRESHOLD
    /\ last.ret = Success
    /\ Len(accepted) > MaxPayload

\* the number of cells of the first i descriptors
SumTo(ds, i) == SumSeq(SubSeq(ds, 1, i))

C15_WitnessSkip ==
    /\ last.op = "write_batch" /\ last.ret = Success
    /\ \E i \in 1..Len(last.ds) : last.ds[i] = 0
    /\ SumSeq(last.ds) > 0

\* a handle written by a batch of two non-empty descriptors alone was closed
C15_WitnessClose ==
    /\ last.op = "close" /\ last.ret = Success /\ ~wrErr /\ ~flErr
    /\ Len(accepted) = 2
    /\ sent = 2

====
